---- MODULE Spec2Model ----
(***************************************************************************)
(* Model of the wake/idle transcription gate (WakeCheckFilter), its        *)
(* timeout watchdog and the audio cue notifier (AudioNotifier).            *)
(*                                                                         *)
(* Text is a sequence of one-character strings.  The asyncio tasks (the    *)
(* frame processor, the watchdog and the playback tasks) run on one        *)
(* cooperative event loop: an action is the code one task runs from one    *)
(* suspension point to the next.                                           *)
(*                                                                         *)
(* Time is measured from the current instant: time.time() is Now == 0,     *)
(* stored timestamps are <= 0 and Tick moves every stored timestamp one    *)
(* unit into the past (timestamps older than Horizon are kept at           *)
(* -Horizon, which no comparison of the code can tell apart).              *)
(***************************************************************************)
EXTENDS Integers, Sequences, FiniteSets, TLC

\* ------------------------------------------------------------------ bounds
MaxAcc == 5        \* longest accumulator the model lets a participant build
MaxStale == 0      \* longest time a suspended watchdog scan stays suspended
MaxTasks == 2      \* playback tasks of one notifier alive at the same time

\* --------------------------------------------------------------- constants
SleepInterval == 1 \* asyncio.sleep(1) of the watchdog loop

Users == {"u1", "u2"}
None == "None"
IDLE == "IDLE"
AWAKE == "AWAKE"
Now == 0

\* wake_timeout = None is written NoTimeout.
NoTimeout == -1

\* Configured wake_timeout values: None, 0 (falsy) and one time unit.
WakeTimeouts == {NoTimeout, 0, 1}

\* Timestamps are told apart up to this age: the longest timeout plus the
\* staleness of the current_time of a suspended scan.
Horizon == 1 + MaxStale

\* wake_phrases = ["a b", "x a"], idle_phrases = ["z", "x z", "b a"]: in the
\* text "x a b" both wake patterns match and the second one matches further
\* left, in "x z" the first two idle patterns match and the second one
\* matches further left.  The idle phrase "b a" is spoken in SplitFrames only.
wake_phrases == << <<"a", " ", "b">>, <<"x", " ", "a">> >>
idle_phrases == << <<"z">>, <<"x", " ", "z">>, <<"b", " ", "a">> >>

\* The transcription frames the upstream stage sends, as <<user_id, text>>.
\* u1 speaks the wake phrase over two frames and can speak the idle phrase;
\* u2 speaks the wake phrase in one frame, after other text.
Frames ==
    { <<"u1", <<"a", " ">> >>,
      <<"u1", <<"b", " ", "y">> >>,
      <<"u1", <<"x", " ", "z">> >>,
      <<"u2", <<"x", " ", "a", " ", "b">> >> }

\* ------------------------------------------------------------ text helpers
WordChars == {"a", "b", "x", "y", "z", "A"}

IsWordChar(c) == c \in WordChars

IsSpace(c) == c = " "

\* re.IGNORECASE: characters are compared after case folding.
Lower(c) == IF c = "A" THEN "a" ELSE c

Max(a, b) == IF a >= b THEN a ELSE b

\* Number of leading non-whitespace characters of s.
RECURSIVE WordLen(_)
WordLen(s) ==
    IF s = <<>> \/ IsSpace(Head(s)) THEN 0 ELSE 1 + WordLen(Tail(s))

\* str.split(): the whitespace-separated words of s.
RECURSIVE Split(_)
Split(s) ==
    IF s = <<>> THEN <<>>
    ELSE IF IsSpace(Head(s)) THEN Split(Tail(s))
    ELSE LET n == WordLen(s)
         IN  <<SubSeq(s, 1, n)>> \o Split(SubSeq(s, n + 1, Len(s)))

\* \b at offset i of s (between s[i] and s[i+1]).
Boundary(s, i) ==
    LET left == i >= 1 /\ IsWordChar(s[i])
        right == i < Len(s) /\ IsWordChar(s[i + 1])
    IN  left # right

\* The literal word w occurs at offset i of s, ignoring case.
LiteralAt(w, s, i) ==
    /\ i + Len(w) <= Len(s)
    /\ \A k \in 1..Len(w) : Lower(s[i + k]) = Lower(w[k])

\* Offset after the whitespace run that starts at offset i (greedy \s*).
RECURSIVE SkipSpaces(_, _)
SkipSpaces(s, i) ==
    IF i < Len(s) /\ IsSpace(s[i + 1]) THEN SkipSpaces(s, i + 1) ELSE i

\* End offset of w1 \s* w2 \s* ... wk matched at offset i, or -1.
\* A word starts with a non-whitespace character, so only the greedy
\* whitespace run can be followed by the next word.
RECURSIVE MatchWords(_, _, _)
MatchWords(words, s, i) ==
    IF words = <<>> THEN i
    ELSE IF ~LiteralAt(Head(words), s, i) THEN -1
    ELSE LET j == i + Len(Head(words))
         IN  IF Tail(words) = <<>> THEN j
             ELSE MatchWords(Tail(words), s, SkipSpaces(s, j))

NoMatch == [start |-> -1, end |-> -1]

\* End offset of the pattern \b w1 \s* ... wk \b matched at offset i, or -1.
MatchAt(words, s, i) ==
    IF ~Boundary(s, i) THEN -1
    ELSE LET e == MatchWords(words, s, i)
         IN  IF e >= 0 /\ Boundary(s, e) THEN e ELSE -1

\* pattern.search(s): the leftmost match of the compiled phrase.
Search(phrase, s) ==
    LET words == Split(phrase)
        starts == {i \in 0..Len(s) : MatchAt(words, s, i) >= 0}
    IN  IF starts = {} THEN NoMatch
        ELSE LET i == CHOOSE i \in starts : \A j \in starts : i <= j
             IN  [start |-> i, end |-> MatchAt(words, s, i)]

\* Variant: of the patterns that match, the one that matches furthest left.
LeftmostMatch(patterns, s) ==
    LET ms == {Search(patterns[i], s) : i \in 1..Len(patterns)} \ {NoMatch}
    IN  IF ms = {} THEN NoMatch
        ELSE CHOOSE m \in ms : \A n \in ms : m.start <= n.start

\* for pattern in patterns: match = pattern.search(s); if match: ...
\* The match of the first pattern of the list that matches.
RECURSIVE FirstMatch(_, _)
FirstMatch(patterns, s) ==
    IF patterns = <<>> THEN NoMatch
    ELSE LET m == Search(Head(patterns), s)
         IN  IF m # NoMatch THEN m ELSE FirstMatch(Tail(patterns), s)

RECURSIVE LStrip(_)
LStrip(s) == IF s # <<>> /\ IsSpace(Head(s)) THEN LStrip(Tail(s)) ELSE s

RECURSIVE RStrip(_)
RStrip(s) ==
    IF s # <<>> /\ IsSpace(s[Len(s)]) THEN RStrip(SubSeq(s, 1, Len(s) - 1))
    ELSE s

\* str.strip()
Strip(s) == RStrip(LStrip(s))

\* s[i:]
From(s, i) == SubSeq(s, i + 1, Len(s))


\* ------------------------------------------------------------------- state
VARIABLES
    wake_notifier,       \* None, "audio" (an AudioNotifier) or "failing"
                         \* (a BaseNotifier whose notify() raises)
    idle_notifier,       \* likewise
    wake_timeout,        \* NoTimeout or a duration
    participant_states,  \* the dict user id -> ParticipantState record
    order,               \* insertion order of the participant_states dict
    proc,                \* the process_frame call in progress
    wd,                  \* the _check_timeout_loop task
    play,                \* "wake"/"idle" -> the playback tasks of the notifier
    pushed,              \* frames the last step pushed
    notified             \* notify() calls the last step made

\* The state of what is modelled apart from the gate at work: the cleanup()
\* call of the gate, an AudioNotifier with callers of its own and the
\* interruption strategies.
VARIABLES
    cleanup_pc,          \* the cleanup() call of the gate
    downstream,          \* whether push_frame() to the next processor raises
    resource,            \* the audio file given to AudioNotifier(...)
    notifier,            \* the AudioNotifier: built, _play_task and its tasks
    callers,             \* the tasks that call notify() and wait() on it
    ret,                 \* what the last step returned to a caller
    strategy,            \* the interruption strategies and the text given
    answer,              \* the last should_interrupt() result
    matcher              \* a compiled phrase and its last search

config == <<wake_notifier, idle_notifier, wake_timeout>>

\* The variables of the standalone AudioNotifier and of the strategies.
apart == <<resource, notifier, callers, ret, strategy, answer, matcher>>

\* What no step of the gate at work changes.
outside == <<cleanup_pc, downstream, apart>>

\* The tasks that call notify() and wait() on the standalone AudioNotifier.
Callers == {"c1", "c2"}

\* A caller that is in neither call.
IdleCaller == [pc |-> "idle", awaits |-> 0]

\* The AudioNotifier before its constructor ran: no _play_task, no task.
Unbuilt == [built |-> "no", play_task |-> 0, tasks |-> <<>>]

\* The interruption strategies as constructed: _text = "" (text), the texts
\* given to append_text() since construction or the last reset() (appended)
\* and whether the last reset() found a keyword in the text (dropped).
NewStrategy == [text |-> <<>>, appended |-> <<>>, dropped |-> FALSE]

\* No call has returned to a caller of the standalone AudioNotifier.
NoReturn == [caller |-> None, op |-> None, result |-> None]

\* No should_interrupt() call has returned.
NoAnswer == [who |-> None, value |-> FALSE]

\* No phrase has been compiled.
NoMatcher == [pc |-> "none", phrase |-> <<>>, text |-> <<>>, found |-> NoMatch]

\* The standalone AudioNotifier and the strategies, not yet in use.
NothingApart ==
    /\ resource = None
    /\ notifier = Unbuilt
    /\ callers = [c \in Callers |-> IdleCaller]
    /\ ret = NoReturn
    /\ strategy = NewStrategy
    /\ answer = NoAnswer
    /\ matcher = NoMatcher

vars == <<wake_notifier, idle_notifier, wake_timeout, participant_states,
          order, proc, wd, play, pushed, notified, outside>>

NotifierKinds == {None, "audio", "failing"}

Notifiers == {"wake", "idle"}

\* Fault: a new record starts AWAKE.
NewParticipantAwake ==
    [state |-> AWAKE, accumulator |-> <<>>, last_activity_time |-> Now]

\* ParticipantState.__init__
NewParticipant ==
    [state |-> IDLE, accumulator |-> <<>>, last_activity_time |-> Now]

\* push_frame(frame): a TranscriptionFrame pushed downstream.
Frame(u, t) ==
    [type |-> "transcription", direction |-> "downstream",
     user_id |-> u, text |-> t]

\* push_error(ErrorFrame(error_msg)): an ErrorFrame, which goes upstream.
ErrorFrame ==
    [type |-> "error", direction |-> "upstream",
     user_id |-> None, text |-> <<>>]

\* The handler of process_frame swallows the exception of a push.
PushSwallows(fs) == IF downstream = "failing" THEN <<>> ELSE fs

\* Fault: the frame goes out although the push raises, and the handler
\* adds the ErrorFrame.
PushAndSignal(fs) ==
    IF downstream = "failing" /\ fs # <<>> THEN fs \o <<ErrorFrame>> ELSE fs

\* What a push_frame() of the frames fs leaves pushed: the frames, or, when
\* the push raises, the ErrorFrame of the handler of process_frame.
Push(fs) == IF downstream = "failing" /\ fs # <<>> THEN <<ErrorFrame>> ELSE fs

\* No process_frame call in progress.
Ready == [pc |-> "ready", user |-> None, match_end |-> 0, woken |-> FALSE]

\* AudioNotifier.__init__: self._play_task = None.  play_task is the status
\* of the task _play_task refers to ("done" as task.done(): finished or
\* cancelled).  Of the tasks _play_task no longer refers to, orphans counts
\* those still pending or running, and orphan_waiter is the waiter ("proc"
\* or "wd") of the one whose cancellation is under way.
NewNotifier == [play_task |-> None, orphans |-> 0, orphan_waiter |-> None]

\* not task.done(): created and neither finished nor cancelled yet.
NotDone(st) == st \in {"pending", "running", "cancelling"}

\* Started, not finished and no cancellation requested.
InFlight(st) == st \in {"pending", "running"}

\* Number of tasks of the notifier that are not over.
Alive(nt) ==
    (IF NotDone(nt.play_task) THEN 1 ELSE 0) + nt.orphans
    + (IF nt.orphan_waiter # None THEN 1 ELSE 0)

\* Number of playback tasks of the notifier in flight.
InFlightCount(nt) ==
    (IF InFlight(nt.play_task) THEN 1 ELSE 0) + nt.orphans

\* AudioNotifier.notify, "Start new playback":
\*   self._play_task = asyncio.create_task(self._play_audio())
\* The task _play_task referred to goes on unreferenced if it is not over;
\* if its cancellation is under way, the other caller awaits it.
StartPlayback(nt, other) ==
    IF Alive(nt) >= MaxTasks THEN [res |-> "blocked", nt |-> nt]
    ELSE [res |-> "returned",
          nt |-> [play_task |-> "pending",
                  orphans |-> IF InFlight(nt.play_task) THEN nt.orphans + 1
                              ELSE nt.orphans,
                  orphan_waiter |-> IF nt.play_task = "cancelling" THEN other
                                    ELSE nt.orphan_waiter]]

\* AudioNotifier.notify up to its return or its first suspension:
\*   if self._play_task and not self._play_task.done():
\*       self._play_task.cancel(); await self._play_task
AudioNotify(nt, other) ==
    IF nt.play_task # None /\ NotDone(nt.play_task)
    THEN [res |-> "suspended", nt |-> [nt EXCEPT !.play_task = "cancelling"]]
    ELSE StartPlayback(nt, other)

\* await notifier.notify() of a notifier of the given kind; other is the
\* other caller of the notifier.
Notify(kind, nt, other) ==
    IF kind = "failing" THEN [res |-> "raised", nt |-> nt]
    ELSE AudioNotify(nt, other)

\* if self._wake_timeout: the watchdog exists for a truthy timeout only.
HasWatchdog(timeout) == timeout # NoTimeout /\ timeout # 0

NoWatchdog == [pc |-> "none", sleep_until |-> 0, current_time |-> 0,
               todo |-> <<>>, woken |-> FALSE]

\* The watchdog suspended in asyncio.sleep(1).
Sleeping == [NoWatchdog EXCEPT !.pc = "sleep",
                               !.sleep_until = Now + SleepInterval]

TypeOK ==
    /\ wake_notifier \in NotifierKinds
    /\ idle_notifier \in NotifierKinds
    /\ wake_timeout \in WakeTimeouts
    /\ DOMAIN participant_states \subseteq Users
    /\ \A u \in DOMAIN participant_states :
          /\ participant_states[u].state \in {IDLE, AWAKE}
          /\ Len(participant_states[u].accumulator) <= MaxAcc
          /\ participant_states[u].last_activity_time \in -Horizon..Now
    /\ proc.pc \in {"ready", "wake_notify", "idle_notify"}
    /\ wd.pc \in {"none", "sleep", "notify", "dead", "cancelled"}
    /\ \A n \in Notifiers : Alive(play[n]) <= MaxTasks

\* WakeCheckFilter.__init__ and the construction of its notifiers.
Init ==
    /\ wake_notifier \in NotifierKinds
    /\ idle_notifier \in NotifierKinds
    /\ wake_timeout \in WakeTimeouts
    /\ participant_states = [u \in {} |-> NewParticipant]
    /\ order = <<>>
    /\ proc = Ready
    /\ wd = IF HasWatchdog(wake_timeout) THEN Sleeping ELSE NoWatchdog
    /\ play = [n \in Notifiers |-> NewNotifier]
    /\ pushed = <<>>
    /\ notified = <<>>
    /\ cleanup_pc = "none"
    /\ downstream = "ok"
    /\ NothingApart

\* ------------------------------------------------------- process_frame
\* The participant map with the record of user u set to p.
Put(ps, u, p) ==
    [v \in DOMAIN ps \cup {u} |-> IF v = u THEN p ELSE ps[v]]

\* process_frame suspended in the notify() call at pc for the frame of u.
Suspended(pc, u, end) ==
    [pc |-> pc, user |-> u, match_end |-> end, woken |-> FALSE]

\* In the operators below u is frame.user_id, t is frame.text and p is the
\* record of u after last_activity_time is set and t is appended.

\* Fault: the frame is forwarded with the accumulated text.
AwakeForwardsAccumulator(u, t, p) ==
    /\ participant_states' = Put(participant_states, u, p)
    /\ pushed' = Push(<<Frame(u, p.accumulator)>>)
    /\ notified' = <<>>
    /\ UNCHANGED <<proc, play>>

\* State AWAKE, no idle phrase in the accumulator: push_frame(frame).
AwakeNoIdleMatch(u, t, p) ==
    /\ participant_states' = Put(participant_states, u, p)
    /\ pushed' = Push(<<Frame(u, t)>>)
    /\ notified' = <<>>
    /\ UNCHANGED <<proc, play>>

\* Fault: the frame is forwarded but the accumulator is kept.
IdleMatchKeepsAccumulator(u, t, p) ==
    /\ participant_states' = Put(participant_states, u, [p EXCEPT !.state = IDLE])
    /\ pushed' = Push(<<Frame(u, t)>>)
    /\ notified' = <<>>
    /\ UNCHANGED <<proc, play>>

\* State AWAKE, idle phrase matched, no idle notifier: state IDLE, the
\* accumulator cleared, push_frame(frame).
IdleMatchNoNotifier(u, t, p) ==
    /\ participant_states' =
          Put(participant_states, u,
              [p EXCEPT !.state = IDLE, !.accumulator = <<>>])
    /\ pushed' = Push(<<Frame(u, t)>>)
    /\ notified' = <<>>
    /\ UNCHANGED <<proc, play>>

\* Fault: the frame is forwarded although the notifier is triggered.
IdleMatchNotifyForwards(u, t, p) ==
    LET r == Notify(idle_notifier, play["idle"], "wd")
    IN  /\ r.res # "blocked"
        /\ participant_states' =
              Put(participant_states, u,
                  [p EXCEPT !.state = IDLE, !.accumulator = <<>>])
        /\ notified' = <<"idle">>
        /\ proc' = IF r.res = "suspended" THEN Suspended("idle_notify", u, 0)
                   ELSE Ready
        /\ pushed' = IF r.res = "raised" THEN <<ErrorFrame>>
                     ELSE <<Frame(u, t)>>
        /\ play' = [play EXCEPT !["idle"] = r.nt]

\* State AWAKE, idle phrase matched, idle notifier set: state IDLE, the
\* accumulator cleared, then await self._idle_notifier.notify(); an
\* exception of notify() ends in push_error.
IdleMatchNotify(u, t, p) ==
    LET r == Notify(idle_notifier, play["idle"], "wd")
    IN  /\ r.res # "blocked"
        /\ participant_states' =
              Put(participant_states, u,
                  [p EXCEPT !.state = IDLE, !.accumulator = <<>>])
        /\ notified' = <<"idle">>
        /\ proc' = IF r.res = "suspended" THEN Suspended("idle_notify", u, 0)
                   ELSE Ready
        /\ pushed' = IF r.res = "raised" THEN <<ErrorFrame>> ELSE <<>>
        /\ play' = [play EXCEPT !["idle"] = r.nt]

\* process_frame, state AWAKE.
AwakeBranch(u, t, p) ==
    IF FirstMatch(idle_phrases, p.accumulator) = NoMatch
    THEN AwakeNoIdleMatch(u, t, p)
    ELSE IF idle_notifier = None THEN IdleMatchNoNotifier(u, t, p)
    ELSE IdleMatchNotify(u, t, p)

\* Fault: a frame without wake phrase goes through.
IdleForwards(u, t, p) ==
    /\ participant_states' = Put(participant_states, u, p)
    /\ pushed' = Push(<<Frame(u, t)>>)
    /\ notified' = <<>>
    /\ UNCHANGED <<proc, play>>

\* Fault: the participant wakes without a wake phrase.
IdleNoWakeMatchWakes(u, t, p) ==
    /\ participant_states' =
          Put(participant_states, u, [p EXCEPT !.state = AWAKE])
    /\ pushed' = <<>>
    /\ notified' = <<>>
    /\ UNCHANGED <<proc, play>>

\* State IDLE, no wake phrase in the accumulator: the frame is dropped.
IdleNoWakeMatch(u, t, p) ==
    /\ participant_states' = Put(participant_states, u, p)
    /\ pushed' = <<>>
    /\ notified' = <<>>
    /\ UNCHANGED <<proc, play>>

\* Fault: after the wake match the idle phrases are looked for as well.
WakeMatchFallsThrough(u, t, p, m) ==
    /\ participant_states' =
          Put(participant_states, u,
              [p EXCEPT !.state = IF FirstMatch(idle_phrases, p.accumulator)
                                      # NoMatch THEN IDLE ELSE AWAKE,
                        !.accumulator = <<>>])
    /\ pushed' = Push(<<Frame(u, From(p.accumulator, m.start))>>)
    /\ notified' = <<>>
    /\ UNCHANGED <<proc, play>>

\* Fault: the whole accumulator is forwarded.
WakeMatchForwardsAll(u, t, p, m) ==
    /\ participant_states' =
          Put(participant_states, u,
              [p EXCEPT !.state = AWAKE, !.accumulator = <<>>])
    /\ pushed' = Push(<<Frame(u, p.accumulator)>>)
    /\ notified' = <<>>
    /\ UNCHANGED <<proc, play>>

\* State IDLE, wake phrase matched at m, no wake notifier: state AWAKE,
\* frame.text = p.accumulator[match.start():], the accumulator cleared,
\* push_frame(frame).
WakeMatchNoNotifier(u, t, p, m) ==
    /\ participant_states' =
          Put(participant_states, u,
              [p EXCEPT !.state = AWAKE, !.accumulator = <<>>])
    /\ pushed' = Push(<<Frame(u, From(p.accumulator, m.start))>>)
    /\ notified' = <<>>
    /\ UNCHANGED <<proc, play>>

\* The rest of the wake branch once notify() has returned, for the record p
\* of u as it is then:
\*   text_after_wake = p.accumulator[match.end():].strip()
\*   p.accumulator = ""; if text_after_wake: push_frame(frame)
AfterWakeNotify(u, p, end) ==
    LET text_after_wake == Strip(From(p.accumulator, end))
    IN  /\ participant_states' =
              Put(participant_states, u, [p EXCEPT !.accumulator = <<>>])
        /\ pushed' = IF text_after_wake # <<>>
                     THEN Push(<<Frame(u, text_after_wake)>>)
                     ELSE <<>>

\* State IDLE, wake phrase matched at m, wake notifier set: state AWAKE,
\* then await self._wake_notifier.notify() and, once it has returned, the
\* rest of the branch.  An exception of notify() skips the rest and ends in
\* push_error; a suspended notify() leaves the rest to ProcResume.
WakeMatchNotify(u, t, p, m) ==
    LET r == Notify(wake_notifier, play["wake"], "wd")
        q == [p EXCEPT !.state = AWAKE]
    IN  /\ r.res # "blocked"
        /\ notified' = <<"wake">>
        /\ play' = [play EXCEPT !["wake"] = r.nt]
        /\ CASE r.res = "returned" ->
                  /\ AfterWakeNotify(u, q, m.end)
                  /\ proc' = Ready
             [] r.res = "suspended" ->
                  /\ participant_states' = Put(participant_states, u, q)
                  /\ pushed' = <<>>
                  /\ proc' = Suspended("wake_notify", u, m.end)
             [] OTHER ->
                  /\ participant_states' = Put(participant_states, u, q)
                  /\ pushed' = <<ErrorFrame>>
                  /\ proc' = Ready

\* process_frame, state IDLE.
IdleBranch(u, t, p) ==
    LET m == FirstMatch(wake_phrases, p.accumulator)
    IN  IF m = NoMatch THEN IdleNoWakeMatch(u, t, p)
        ELSE IF wake_notifier = None THEN WakeMatchNoNotifier(u, t, p, m)
        ELSE WakeMatchNotify(u, t, p, m)

\* Fault: the accumulator holds the text of the last frame only.
TouchedForgets(u, t) ==
    LET p == IF u \in DOMAIN participant_states THEN participant_states[u]
             ELSE NewParticipant
    IN  [p EXCEPT !.last_activity_time = Now, !.accumulator = t]

\* The record of u that process_frame works on: looked up or created, then
\*   p.last_activity_time = time.time(); p.accumulator += frame.text
Touched(u, t) ==
    LET p == IF u \in DOMAIN participant_states THEN participant_states[u]
             ELSE NewParticipant
    IN  [p EXCEPT !.last_activity_time = Now, !.accumulator = @ \o t]

\* process_frame(frame) for a TranscriptionFrame of user u with text t, up
\* to its return or its first suspension.
ProcessFrame(u, t) ==
    /\ proc.pc = "ready"
    /\ LET p == Touched(u, t)
       IN  /\ Len(p.accumulator) <= MaxAcc
           /\ order' = IF u \in DOMAIN participant_states THEN order
                       ELSE Append(order, u)
           /\ IF p.state = AWAKE THEN AwakeBranch(u, t, p)
              ELSE IdleBranch(u, t, p)
    /\ UNCHANGED <<outside, config, wd>>

\* process_frame resumes in notify() once the cancelled playback is over:
\* notify() starts the new playback and returns, and process_frame runs to
\* its return.
ProcResume ==
    /\ proc.pc \in {"wake_notify", "idle_notify"}
    /\ proc.woken
    /\ LET n == IF proc.pc = "wake_notify" THEN "wake" ELSE "idle"
           r == StartPlayback(play[n], "wd")
       IN  /\ r.res # "blocked"
           /\ proc' = Ready
           /\ play' = [play EXCEPT ![n] = r.nt]
           /\ notified' = <<>>
           /\ IF n = "wake"
              THEN AfterWakeNotify(proc.user, participant_states[proc.user],
                                   proc.match_end)
              ELSE /\ pushed' = <<>>
                   /\ UNCHANGED participant_states
    /\ UNCHANGED <<outside, config, order, wd>>

\* ------------------------------------------------- _check_timeout_loop
\* The body of "for participant_id, p in list(...items())" over the rest
\* (todo) of the snapshot, with current_time ct, up to the end of the scan,
\* the first suspension in notify() or an exception.  ps is the participant
\* map, nt the idle AudioNotifier, calls the notify() calls made so far.
\* Fault: the state of the participant is not looked at.
TimedOutAgain(p, current_time) ==
    current_time - p.last_activity_time >= wake_timeout

\* Fault: the comparison is off by one time unit.
TimedOutEarly(p, current_time) ==
    /\ p.state = AWAKE
    /\ current_time - p.last_activity_time >= wake_timeout - 1

\* if p.state == AWAKE: time_since_last_activity = current_time -
\* p.last_activity_time; if time_since_last_activity >= self._wake_timeout
TimedOut(p, current_time) ==
    /\ p.state = AWAKE
    /\ current_time - p.last_activity_time >= wake_timeout

RECURSIVE Scan(_, _, _, _, _)
Scan(todo, ps, nt, ct, calls) ==
    IF todo = <<>>
    THEN [pc |-> "sleep", ps |-> ps, nt |-> nt, todo |-> <<>>, calls |-> calls]
    ELSE LET u == Head(todo)
             p == ps[u]
         IN  IF TimedOut(p, ct)
             THEN LET ps2 == [ps EXCEPT ![u] =
                                [p EXCEPT !.state = IDLE, !.accumulator = <<>>]]
                      r == Notify(idle_notifier, nt, "proc")
                  IN  IF idle_notifier = None
                      THEN Scan(Tail(todo), ps2, nt, ct, calls)
                      ELSE IF r.res = "returned"
                      THEN Scan(Tail(todo), ps2, r.nt, ct, Append(calls, "idle"))
                      ELSE [pc |-> CASE r.res = "raised" -> "dead"
                                     [] r.res = "suspended" -> "notify"
                                     [] OTHER -> "blocked",
                            ps |-> ps2, nt |-> r.nt, todo |-> Tail(todo),
                            calls |-> Append(calls, "idle")]
             ELSE Scan(Tail(todo), ps, nt, ct, calls)

\* The watchdog after a part s of a scan that started at current_time ct:
\* asleep again, suspended in notify(), or over ("except Exception" is
\* outside the loop).
AfterScan(s, ct) ==
    CASE s.pc = "sleep" -> Sleeping
      [] s.pc = "notify" -> [NoWatchdog EXCEPT !.pc = "notify",
                                               !.current_time = ct,
                                               !.todo = s.todo]
      [] OTHER -> [NoWatchdog EXCEPT !.pc = "dead"]

\* asyncio.sleep(1) is over: one scan of the participants, up to the next
\* sleep, the first suspension in notify() or the end of the loop.
WatchdogTick ==
    /\ wd.pc = "sleep"
    /\ wd.sleep_until <= Now
    /\ cleanup_pc # "cancel_sent"
    /\ LET current_time == Now
           s == Scan(order, participant_states, play["idle"], current_time, <<>>)
       IN  /\ s.pc # "blocked"
           /\ wd' = AfterScan(s, current_time)
           /\ participant_states' = s.ps
           /\ play' = [play EXCEPT !["idle"] = s.nt]
           /\ notified' = s.calls
    /\ pushed' = <<>>
    /\ UNCHANGED <<outside, config, order, proc>>

\* The watchdog resumes in notify() once the cancelled playback is over,
\* starts the new playback and goes on with the scan.
WatchdogResume ==
    /\ wd.pc = "notify"
    /\ wd.woken
    /\ LET r == StartPlayback(play["idle"], "proc")
           s == Scan(wd.todo, participant_states, r.nt, wd.current_time, <<>>)
       IN  /\ r.res # "blocked"
           /\ s.pc # "blocked"
           /\ wd' = AfterScan(s, wd.current_time)
           /\ participant_states' = s.ps
           /\ play' = [play EXCEPT !["idle"] = s.nt]
           /\ notified' = s.calls
    /\ pushed' = <<>>
    /\ UNCHANGED <<outside, config, order, proc>>

\* --------------------------------------------------------- _play_audio
\* The task _play_task refers to starts: self._is_playing = True, the
\* worker thread is started and the task awaits it.
PlayStart(n) ==
    /\ play[n].play_task = "pending"
    /\ play' = [play EXCEPT ![n].play_task = "running"]
    /\ pushed' = <<>>
    /\ notified' = <<>>
    /\ UNCHANGED <<outside, config, participant_states, order, proc, wd>>

\* The worker thread is over (or failed: the error is logged): the task ends.
PlayFinish(n) ==
    /\ play[n].play_task = "running"
    /\ play' = [play EXCEPT ![n].play_task = "done"]
    /\ pushed' = <<>>
    /\ notified' = <<>>
    /\ UNCHANGED <<outside, config, participant_states, order, proc, wd>>

\* process_frame awaits a playback task of notifier n in notify().
ProcAwaits(n) ==
    /\ ~proc.woken
    /\ \/ n = "wake" /\ proc.pc = "wake_notify"
       \/ n = "idle" /\ proc.pc = "idle_notify"

\* The watchdog awaits a playback task of notifier n in notify().
WatchdogAwaits(n) == n = "idle" /\ wd.pc = "notify" /\ ~wd.woken

\* The task _play_task refers to gets the CancelledError of cancel() and
\* ends cancelled: the notify() calls that await it are woken up.
PlayCancelled(n) ==
    /\ play[n].play_task = "cancelling"
    /\ play' = [play EXCEPT ![n].play_task = "done"]
    /\ proc' = IF ProcAwaits(n) /\ play[n].orphan_waiter # "proc"
               THEN [proc EXCEPT !.woken = TRUE] ELSE proc
    /\ wd' = IF WatchdogAwaits(n) /\ play[n].orphan_waiter # "wd"
             THEN [wd EXCEPT !.woken = TRUE] ELSE wd
    /\ pushed' = <<>>
    /\ notified' = <<>>
    /\ UNCHANGED <<outside, config, participant_states, order>>

\* The same for the task _play_task no longer refers to.
OrphanCancelled(n) ==
    /\ play[n].orphan_waiter # None
    /\ play' = [play EXCEPT ![n].orphan_waiter = None]
    /\ proc' = IF play[n].orphan_waiter = "proc"
               THEN [proc EXCEPT !.woken = TRUE] ELSE proc
    /\ wd' = IF play[n].orphan_waiter = "wd"
             THEN [wd EXCEPT !.woken = TRUE] ELSE wd
    /\ pushed' = <<>>
    /\ notified' = <<>>
    /\ UNCHANGED <<outside, config, participant_states, order>>

\* An unreferenced playback task runs to its end.
OrphanFinish(n) ==
    /\ play[n].orphans > 0
    /\ play' = [play EXCEPT ![n].orphans = @ - 1]
    /\ pushed' = <<>>
    /\ notified' = <<>>
    /\ UNCHANGED <<outside, config, participant_states, order, proc, wd>>

\* ---------------------------------------------------------------- time
\* A timestamp one time unit later, seen from the new current instant.
Shift(t) == Max(t - 1, -Horizon)

\* One time unit passes.
Tick ==
    /\ wd.pc = "notify" => wd.current_time > -MaxStale
    /\ participant_states' =
          [u \in DOMAIN participant_states |->
              [participant_states[u] EXCEPT !.last_activity_time = Shift(@)]]
    /\ wd' = CASE wd.pc = "sleep" -> [wd EXCEPT !.sleep_until = Max(@ - 1, Now)]
               [] wd.pc = "notify" -> [wd EXCEPT !.current_time = Shift(@)]
               [] OTHER -> wd
    /\ pushed' = <<>>
    /\ notified' = <<>>
    /\ UNCHANGED <<outside, config, order, proc, play>>

Next ==
    \/ \E f \in Frames : ProcessFrame(f[1], f[2])
    \/ ProcResume
    \/ WatchdogTick
    \/ WatchdogResume
    \/ \E n \in Notifiers : PlayStart(n)
    \/ \E n \in Notifiers : PlayFinish(n)
    \/ \E n \in Notifiers : PlayCancelled(n)
    \/ \E n \in Notifiers : OrphanCancelled(n)
    \/ \E n \in Notifiers : OrphanFinish(n)
    \/ Tick

Spec == Init /\ [][Next]_vars

\* The event loop runs every task that is ready, time passes, a sleep ends
\* when its delay has passed and a playback task comes to its end.
Fairness ==
    /\ WF_vars(ProcResume)
    /\ WF_vars(WatchdogTick)
    /\ WF_vars(WatchdogResume)
    /\ WF_vars(Tick)
    /\ \A n \in Notifiers :
          /\ WF_vars(PlayStart(n))
          /\ WF_vars(PlayFinish(n))
          /\ WF_vars(PlayCancelled(n))
          /\ WF_vars(OrphanCancelled(n))
          /\ WF_vars(OrphanFinish(n))

LiveSpec == Spec /\ Fairness

\* ============================================================ properties
\* The state and the accumulator of u; a participant without record is
\* created IDLE with an empty accumulator by its first frame.
StateOf(u) ==
    IF u \in DOMAIN participant_states THEN participant_states[u].state
    ELSE IDLE

AccumulatorOf(u) ==
    IF u \in DOMAIN participant_states
    THEN participant_states[u].accumulator
    ELSE <<>>

IsDownstream(f) == f.direction = "downstream"

\* The frames the last step pushed downstream.
Forwarded == SelectSeq(pushed, IsDownstream)

\* What every process_frame step for a frame of u does: it leaves the record
\* of u changed and stamped with the current time.
Touches(u) ==
    /\ proc.pc = "ready"
    /\ u \in DOMAIN participant_states'
    /\ participant_states'[u].last_activity_time = Now
    /\ u \in DOMAIN participant_states
          => participant_states'[u] # participant_states[u]

\* The step is process_frame for the frame f.
Processes(f) == Touches(f[1]) /\ ProcessFrame(f[1], f[2])

\* Processes(f) is ProcessFrame for f.
ProcessFrameTouches ==
    [][\A f \in Frames : ProcessFrame(f[1], f[2]) => Touches(f[1])]_vars

\* The step is a step of the watchdog task.
WatchdogStep == WatchdogTick \/ WatchdogResume

\* ---------------------------------------------------------------- C1
\* C1: each participant is in exactly one of IDLE and AWAKE, and in the
\* state right after a step that changed the state of a participant (a wake
\* match, an idle match or a timeout) the accumulator of that participant
\* is empty, whatever notifiers are configured and also when the notifier
\* call suspends or raises.
C1_AccumulatorEmptyAfterTransition ==
    [][\A u \in DOMAIN participant_states' :
          /\ participant_states'[u].state \in {IDLE, AWAKE}
          /\ participant_states'[u].state # StateOf(u)
                => participant_states'[u].accumulator = <<>>]_vars

\* ---------------------------------------------------------------- C2
\* C2: process_frame of a frame of an IDLE participant whose accumulated
\* text, this frame's text included, matches no wake phrase forwards nothing
\* and leaves the participant IDLE; and whenever a transcription frame is
\* forwarded, the step is process_frame of a frame of an AWAKE participant
\* or of the frame that completes a wake match (or the resumption of the
\* latter after the wake notifier).
C2_GatingSafety ==
    [][/\ \A f \in Frames :
             (/\ Processes(f)
              /\ StateOf(f[1]) = IDLE
              /\ FirstMatch(wake_phrases, AccumulatorOf(f[1]) \o f[2]) = NoMatch)
             => /\ Forwarded' = <<>>
                /\ participant_states'[f[1]].state = IDLE
       /\ Forwarded' # <<>>
             => \/ \E f \in Frames :
                      /\ Processes(f)
                      /\ \/ StateOf(f[1]) = AWAKE
                         \/ FirstMatch(wake_phrases,
                                       AccumulatorOf(f[1]) \o f[2]) # NoMatch
                \/ ProcResume /\ proc.pc = "wake_notify"]_vars

\* A frame of u1 was dropped: u1 is IDLE with the text in its accumulator.
C2_Witness ==
    /\ "u1" \in DOMAIN participant_states
    /\ participant_states["u1"].state = IDLE
    /\ participant_states["u1"].accumulator = <<"a", " ">>
    /\ participant_states["u1"].last_activity_time = Now
    /\ pushed = <<>>

\* ---------------------------------------------------------------- C3
\* C3: without wake notifier, process_frame of the frame that completes a
\* wake match for an IDLE participant forwards exactly one frame whose text
\* is the accumulator from the start of the matched phrase to its end, and
\* the participant is AWAKE with an empty accumulator.
C3_WakeWithoutNotifier ==
    [][\A f \in Frames :
          LET u == f[1]
              acc == AccumulatorOf(u) \o f[2]
              m == FirstMatch(wake_phrases, acc)
          IN  (/\ Processes(f)
               /\ StateOf(u) = IDLE
               /\ wake_notifier = None
               /\ m # NoMatch)
              => /\ Forwarded' = <<Frame(u, SubSeq(acc, m.start + 1, Len(acc)))>>
                 /\ participant_states'[u].state = AWAKE
                 /\ participant_states'[u].accumulator = <<>>]_vars

\* "x a b" of u2 was forwarded as "a b".
C3_Witness ==
    /\ wake_notifier = None
    /\ pushed = <<Frame("u2", <<"a", " ", "b">>)>>
    /\ participant_states["u2"].state = AWAKE
    /\ participant_states["u2"].accumulator = <<>>

\* ---------------------------------------------------------------- C4
\* C4: with a wake notifier, process_frame of the frame that completes a
\* wake match for an IDLE participant calls the wake notifier's notify()
\* exactly once and, when it is over (at once, or at its resumption after a
\* suspended notify()), the participant is AWAKE, its accumulator is empty
\* and what was forwarded is one frame with the stripped text after the
\* matched phrase if that text is not empty, and nothing otherwise.
C4_WakeWithNotifier ==
    [][/\ \A f \in Frames :
             LET u == f[1]
                 acc == AccumulatorOf(u) \o f[2]
                 m == FirstMatch(wake_phrases, acc)
                 rest == Strip(SubSeq(acc, m.end + 1, Len(acc)))
             IN  (/\ Processes(f)
                  /\ StateOf(u) = IDLE
                  /\ wake_notifier # None
                  /\ m # NoMatch)
                 => /\ notified' = <<"wake">>
                    /\ participant_states'[u].state = AWAKE
                    /\ proc'.pc = "ready"
                         => /\ participant_states'[u].accumulator = <<>>
                            /\ Forwarded' = IF rest # <<>>
                                            THEN <<Frame(u, rest)>>
                                            ELSE <<>>
       /\ (ProcResume /\ proc.pc = "wake_notify")
             => /\ notified' = <<>>
                /\ participant_states'[proc.user].state = AWAKE
                /\ participant_states'[proc.user].accumulator = <<>>]_vars

\* ---------------------------------------------------------------- C5
\* C5: with an idle notifier, process_frame of a frame of an AWAKE
\* participant whose accumulator matches an idle phrase makes the participant
\* IDLE, clears its accumulator, calls the idle notifier's notify() and
\* forwards nothing, neither at once nor when it resumes after a suspended
\* notify().
C5_IdleMatchWithNotifier ==
    [][/\ \A f \in Frames :
             LET u == f[1]
                 acc == AccumulatorOf(u) \o f[2]
             IN  (/\ Processes(f)
                  /\ StateOf(u) = AWAKE
                  /\ idle_notifier # None
                  /\ FirstMatch(idle_phrases, acc) # NoMatch)
                 => /\ participant_states'[u].state = IDLE
                    /\ participant_states'[u].accumulator = <<>>
                    /\ notified' = <<"idle">>
                    /\ Forwarded' = <<>>
       /\ (ProcResume /\ proc.pc = "idle_notify")
             => /\ Forwarded' = <<>>
                /\ notified' = <<>>
                /\ participant_states' = participant_states]_vars

\* u1 spoke the idle phrase: the idle notifier was called by process_frame
\* (no watchdog exists) and nothing was pushed.
C5_Witness ==
    /\ idle_notifier = "audio"
    /\ ~HasWatchdog(wake_timeout)
    /\ notified = <<"idle">>
    /\ pushed = <<>>
    /\ participant_states["u1"].state = IDLE
    /\ participant_states["u1"].accumulator = <<>>

\* ---------------------------------------------------------------- C6
\* C6: without idle notifier, process_frame of a frame of an AWAKE
\* participant whose accumulator matches an idle phrase forwards exactly one
\* frame with the text of the frame as it came, and the participant is IDLE
\* with an empty accumulator.
C6_IdleMatchWithoutNotifier ==
    [][\A f \in Frames :
          LET u == f[1]
              acc == AccumulatorOf(u) \o f[2]
          IN  (/\ Processes(f)
               /\ StateOf(u) = AWAKE
               /\ idle_notifier = None
               /\ FirstMatch(idle_phrases, acc) # NoMatch)
              => /\ Forwarded' = <<Frame(u, f[2])>>
                 /\ participant_states'[u].state = IDLE
                 /\ participant_states'[u].accumulator = <<>>]_vars

\* "x z" of u1 was forwarded as it came and u1 is IDLE again.
C6_Witness ==
    /\ idle_notifier = None
    /\ pushed = <<Frame("u1", <<"x", " ", "z">>)>>
    /\ participant_states["u1"].state = IDLE
    /\ participant_states["u1"].accumulator = <<>>

\* ---------------------------------------------------------------- C7
\* C7: process_frame of a frame of an AWAKE participant whose accumulator
\* matches no idle phrase forwards exactly one frame with the text of the
\* frame, and the participant stays AWAKE.
C7_AwakePassThrough ==
    [][\A f \in Frames :
          LET u == f[1]
              acc == AccumulatorOf(u) \o f[2]
          IN  (/\ Processes(f)
               /\ StateOf(u) = AWAKE
               /\ FirstMatch(idle_phrases, acc) = NoMatch)
              => /\ Forwarded' = <<Frame(u, f[2])>>
                 /\ participant_states'[u].state = AWAKE]_vars

\* "b y" of u1 was forwarded while u1 was AWAKE already.
C7_Witness ==
    /\ pushed = <<Frame("u1", <<"b", " ", "y">>)>>
    /\ participant_states["u1"].state = AWAKE
    /\ participant_states["u1"].accumulator = <<"b", " ", "y">>

\* ---------------------------------------------------------------- C8
\* C8: with a wake timeout that starts the watchdog, a participant that is
\* AWAKE and gets no further transcription frame is made IDLE: a
\* participant that gets finitely many frames is IDLE again and again.
C8_TimeoutLiveness ==
    HasWatchdog(wake_timeout)
    => \A u \in Users :
          \/ []<>(StateOf(u) = IDLE)
          \/ []<><<\E f \in Frames : f[1] = u /\ Processes(f)>>_vars

\* The same with an idle notifier whose notify() does not raise.
TimeoutLivenessSoundNotifier ==
    (HasWatchdog(wake_timeout) /\ idle_notifier # "failing")
    => \A u \in Users :
          \/ []<>(StateOf(u) = IDLE)
          \/ []<><<\E f \in Frames : f[1] = u /\ Processes(f)>>_vars

\* ---------------------------------------------------------------- C9
\* C9: a step of the watchdog changes the record of a participant only by
\* making it IDLE, and only if the participant is AWAKE and the time since
\* its last transcription frame is at least the configured timeout; every
\* process_frame of a transcription frame, forwarded or dropped, sets
\* last_activity_time of its participant to the current time.
C9_NoPrematureTimeout ==
    [][/\ WatchdogStep
          => \A u \in DOMAIN participant_states :
                participant_states'[u] # participant_states[u]
                => /\ participant_states[u].state = AWAKE
                   /\ participant_states'[u].state = IDLE
                   /\ HasWatchdog(wake_timeout)
                   /\ Now - participant_states[u].last_activity_time
                         >= wake_timeout
       /\ \A f \in Frames :
             (proc.pc = "ready" /\ wd' = wd /\ ProcessFrame(f[1], f[2]))
             => participant_states'[f[1]].last_activity_time = Now]_vars

\* A scan is just over: it has timed out u2 (which never speaks the idle
\* phrase) and has left alone u1, AWAKE with a frame in this time unit.
C9_Witness ==
    /\ wd.pc = "sleep"
    /\ wd.sleep_until = Now + SleepInterval
    /\ DOMAIN participant_states = Users
    /\ participant_states["u2"].state = IDLE
    /\ participant_states["u2"].accumulator = <<>>
    /\ participant_states["u2"].last_activity_time <= Now - wake_timeout
    /\ participant_states["u1"].state = AWAKE
    /\ participant_states["u1"].last_activity_time = Now

\* ---------------------------------------------------------------- C10
\* C10: a notifier has at most one playback task in flight (created, not
\* over, no cancellation requested) at any time.
C10_SingleFlight ==
    \A n \in Notifiers : InFlightCount(play[n]) <= 1

\* ================================================== AudioNotifier alone
\* The AudioNotifier of src/sync/audio_notifier.py with callers of its own:
\* the constructor, notify(), wait(), the playback tasks it creates and the
\* worker threads that asyncio.to_thread() runs for them.

\* The variables of the gate at work.
gateVars == <<config, participant_states, order, proc, wd, play, pushed,
              notified>>

\* What no step of the standalone AudioNotifier changes.
besideNotifier ==
    <<gateVars, cleanup_pc, downstream, strategy, answer, matcher>>

\* The largest number of playback tasks one notifier creates here.
MaxPlaybacks == 3

\* The audio files given to the constructor: a missing file, a file that is
\* no WAV container, a WAV file whose samples are not PCM, and PCM WAV files
\* with 0, 1, 2 and 6 channels in the header.
Resources ==
    { [exists |-> FALSE, container |-> None, format |-> None, channels |-> 0],
      [exists |-> TRUE, container |-> "other", format |-> None,
       channels |-> 0],
      [exists |-> TRUE, container |-> "wave", format |-> "float",
       channels |-> 2] }
    \cup { [exists |-> TRUE, container |-> "wave", format |-> "pcm",
            channels |-> n] : n \in {0, 1, 2, 6} }

\* The header is not looked at.
WaveOpensAny(r) == TRUE

\* wave.open(path, "rb") and the header reads succeed: the file is a RIFF/WAVE
\* container with PCM samples and a channel count that is not zero.
WaveOpens(r) == r.container = "wave" /\ r.format = "pcm" /\ r.channels >= 1

\* The outcome of AudioNotifier(audio_file=r).
Constructed(r) ==
    IF ~r.exists THEN "FileNotFoundError"
    ELSE IF ~WaveOpens(r) THEN "ValueError"
    ELSE "ok"

\* AudioNotifier.__init__.
Construct ==
    /\ notifier.built = "no"
    /\ \E r \in Resources :
         /\ resource' = r
         /\ notifier' = [notifier EXCEPT !.built = Constructed(r)]
    /\ ret' = NoReturn
    /\ UNCHANGED callers
    /\ UNCHANGED besideNotifier

\* A playback task as asyncio.create_task(self._play_audio()) makes it.
NewTask == [status |-> "pending", must_cancel |-> FALSE, worker |-> "none"]

\* Task i of the notifier nt is done: it finished, was cancelled or raised.
TaskDone(nt, i) == nt.tasks[i].status \in {"finished", "cancelled", "failed"}

\* What `await task` gives the one awaiting inside `try ... except
\* asyncio.CancelledError: pass`: a raised exception of the task goes on.
AwaitOutcome(status) == IF status = "failed" THEN "raised" ELSE "returned"

\* self._play_task = asyncio.create_task(self._play_audio()).
CreateTask(nt) ==
    [nt EXCEPT !.tasks = Append(@, NewTask), !.play_task = Len(nt.tasks) + 1]

\* The number of callers suspended in notify().
InNotify == Cardinality({c \in Callers : callers[c].pc = "notify"})

\* A caller calls notify(): a playback that is not done is cancelled and
\* awaited, otherwise the new playback is created at once.
NotifyCall(c) ==
    /\ notifier.built = "ok"
    /\ callers[c].pc = "idle"
    /\ Len(notifier.tasks) + InNotify < MaxPlaybacks
    /\ LET i == notifier.play_task
       IN  IF i # 0 /\ ~TaskDone(notifier, i)
           THEN /\ notifier' =
                       [notifier EXCEPT !.tasks[i].must_cancel = TRUE]
                /\ callers' = [callers EXCEPT ![c] =
                                   [pc |-> "notify", awaits |-> i]]
                /\ ret' = NoReturn
           ELSE /\ notifier' = CreateTask(notifier)
                /\ ret' = [caller |-> c, op |-> "notify",
                           result |-> "returned"]
                /\ UNCHANGED callers
    /\ UNCHANGED resource
    /\ UNCHANGED besideNotifier

\* The playback a caller awaited in notify() is done: the caller goes on
\* and creates the new playback, unless the await raised.
NotifyResume(c) ==
    /\ callers[c].pc = "notify"
    /\ TaskDone(notifier, callers[c].awaits)
    /\ LET out == AwaitOutcome(notifier.tasks[callers[c].awaits].status)
       IN  /\ notifier' = IF out = "returned" THEN CreateTask(notifier)
                          ELSE notifier
           /\ ret' = [caller |-> c, op |-> "notify", result |-> out]
    /\ callers' = [callers EXCEPT ![c] = IdleCaller]
    /\ UNCHANGED resource
    /\ UNCHANGED besideNotifier

\* wait() returns at once whatever the playback does.
WaitCallNoWait(c) ==
    /\ notifier.built = "ok"
    /\ callers[c].pc = "idle"
    /\ ret' = [caller |-> c, op |-> "wait", result |-> "returned"]
    /\ UNCHANGED <<resource, notifier, callers>>
    /\ UNCHANGED besideNotifier

\* A caller calls wait(): it returns at once without a playback or with
\* one that is done, and awaits _play_task otherwise.
WaitCall(c) ==
    /\ notifier.built = "ok"
    /\ callers[c].pc = "idle"
    /\ LET i == notifier.play_task
       IN  IF i # 0 /\ ~TaskDone(notifier, i)
           THEN /\ callers' = [callers EXCEPT ![c] =
                                   [pc |-> "wait", awaits |-> i]]
                /\ ret' = NoReturn
           ELSE /\ ret' = [caller |-> c, op |-> "wait",
                           result |-> IF i = 0 THEN "returned"
                                      ELSE AwaitOutcome(
                                               notifier.tasks[i].status)]
                /\ UNCHANGED callers
    /\ UNCHANGED <<resource, notifier>>
    /\ UNCHANGED besideNotifier

\* The playback a caller awaited in wait() is done.
WaitResume(c) ==
    /\ callers[c].pc = "wait"
    /\ TaskDone(notifier, callers[c].awaits)
    /\ ret' = [caller |-> c, op |-> "wait",
               result |->
                   AwaitOutcome(notifier.tasks[callers[c].awaits].status)]
    /\ callers' = [callers EXCEPT ![c] = IdleCaller]
    /\ UNCHANGED <<resource, notifier>>
    /\ UNCHANGED besideNotifier

\* The event loop starts playback task i: _play_audio runs up to its await
\* of asyncio.to_thread(), which starts the worker thread.
TaskStart(i) ==
    /\ i \in 1..Len(notifier.tasks)
    /\ notifier.tasks[i].status = "pending"
    /\ ~notifier.tasks[i].must_cancel
    /\ notifier' = [notifier EXCEPT !.tasks[i].status = "running",
                                    !.tasks[i].worker = "playing"]
    /\ ret' = NoReturn
    /\ UNCHANGED <<resource, callers>>
    /\ UNCHANGED besideNotifier

\* Cancellation waits for the worker thread.
TaskCancelledAfterWorker(i) ==
    /\ i \in 1..Len(notifier.tasks)
    /\ notifier.tasks[i].status \in {"pending", "running"}
    /\ notifier.tasks[i].must_cancel
    /\ notifier.tasks[i].worker # "playing"
    /\ notifier' = [notifier EXCEPT !.tasks[i].status = "cancelled"]
    /\ ret' = NoReturn
    /\ UNCHANGED <<resource, callers>>
    /\ UNCHANGED besideNotifier

\* The cancellation asked for reaches task i: a task not yet started never
\* starts, a task awaiting its worker thread ends and leaves the thread,
\* which nothing stops, to itself.
TaskCancelled(i) ==
    /\ i \in 1..Len(notifier.tasks)
    /\ notifier.tasks[i].status \in {"pending", "running"}
    /\ notifier.tasks[i].must_cancel
    /\ notifier' = [notifier EXCEPT !.tasks[i].status = "cancelled"]
    /\ ret' = NoReturn
    /\ UNCHANGED <<resource, callers>>
    /\ UNCHANGED besideNotifier

\* The ways _play_audio_sync ends: the file was played to its end, or an
\* exception was raised (logged and raised again).
WorkerResults == {"done", "failed"}

\* The failure of the worker thread leaves _play_audio.
PlayAudioRaises(result) ==
    IF result = "failed" THEN "failed" ELSE "finished"

\* How _play_audio ends when its worker thread ended with result: the
\* exception of a failed worker is caught and logged.
PlayAudioEnd(result) == "finished"

\* The worker thread of task i ends; the task, unless cancellation was asked
\* for or has happened, ends with it.
WorkerEnds(i) ==
    /\ i \in 1..Len(notifier.tasks)
    /\ notifier.tasks[i].worker = "playing"
    /\ \E result \in WorkerResults :
         notifier' =
             [notifier EXCEPT
                 !.tasks[i].worker = result,
                 !.tasks[i].status =
                     IF @ = "running" /\ ~notifier.tasks[i].must_cancel
                     THEN PlayAudioEnd(result) ELSE @]
    /\ ret' = NoReturn
    /\ UNCHANGED <<resource, callers>>
    /\ UNCHANGED besideNotifier

\* The gate, the cleanup() call and the strategies, not in use.
NotifierAloneInit ==
    /\ wake_notifier = None
    /\ idle_notifier = None
    /\ wake_timeout = NoTimeout
    /\ participant_states = [u \in {} |-> NewParticipant]
    /\ order = <<>>
    /\ proc = Ready
    /\ wd = NoWatchdog
    /\ play = [n \in Notifiers |-> NewNotifier]
    /\ pushed = <<>>
    /\ notified = <<>>
    /\ cleanup_pc = "none"
    /\ downstream = "ok"
    /\ NothingApart

NotifierNext ==
    \/ Construct
    \/ \E c \in Callers : NotifyCall(c)
    \/ \E c \in Callers : NotifyResume(c)
    \/ \E c \in Callers : WaitCall(c)
    \/ \E c \in Callers : WaitResume(c)
    \/ \E i \in 1..MaxPlaybacks : TaskStart(i)
    \/ \E i \in 1..MaxPlaybacks : TaskCancelled(i)
    \/ \E i \in 1..MaxPlaybacks : WorkerEnds(i)

NotifierSpec == NotifierAloneInit /\ [][NotifierNext]_vars

\* The event loop runs every task that is ready: a playback task starts or
\* ends cancelled, a caller whose awaited task is done resumes. Nothing
\* makes a worker thread end.
NotifierFairness ==
    /\ \A c \in Callers : WF_vars(NotifyResume(c)) /\ WF_vars(WaitResume(c))
    /\ \A i \in 1..MaxPlaybacks :
          WF_vars(TaskStart(i)) /\ WF_vars(TaskCancelled(i))

NotifierLiveSpec == NotifierSpec /\ NotifierFairness

\* ------------------------------------------- properties of the notifier
\* The playback tasks of the standalone notifier.
Playbacks == 1..Len(notifier.tasks)

\* C11: restart semantics. A playback that a later notify() cancelled stops
\* producing audio output and never runs to completion: the worker of a
\* cancelled playback is neither playing nor has it played to the end.
C11_RestartStopsPlayback ==
    \A i \in Playbacks :
        notifier.tasks[i].status = "cancelled"
            => notifier.tasks[i].worker \notin {"playing", "done"}

\* ============================================================== cleanup
\* WakeCheckFilter.cleanup() beside the gate at work. cleanup_pc is "none"
\* before the call, "cancel_sent" while cleanup() awaits a watchdog that
\* will get the CancelledError at its sleep, "cancel_swallowed" while it
\* awaits a watchdog whose CancelledError the notifier swallows, and
\* "returned" after.

\* The watchdog task is over: the loop was left by an exception or by the
\* cancellation.
WatchdogOver == wd.pc \in {"dead", "cancelled"}

\* cleanup() is called: without a watchdog task, or with one that is over,
\* it returns at once. Otherwise it cancels the task and awaits it. A
\* watchdog suspended in asyncio.sleep() gets the CancelledError there; one
\* suspended in notify() gets it at `await self._play_task`, inside the
\* notifier's `except asyncio.CancelledError: pass`.
Cleanup ==
    /\ cleanup_pc = "none"
    /\ cleanup_pc' = CASE wd.pc = "none" \/ WatchdogOver -> "returned"
                       [] wd.pc = "sleep" -> "cancel_sent"
                       [] wd.pc = "notify" -> "cancel_swallowed"
    /\ pushed' = <<>>
    /\ notified' = <<>>
    /\ UNCHANGED <<downstream, apart, config, participant_states, order, proc, wd,
                   play>>

\* The CancelledError reaches the watchdog at asyncio.sleep(): the loop is
\* left through `except asyncio.CancelledError` and the task is over.
WatchdogCancelled ==
    /\ cleanup_pc = "cancel_sent"
    /\ wd.pc = "sleep"
    /\ wd' = [NoWatchdog EXCEPT !.pc = "cancelled"]
    /\ pushed' = <<>>
    /\ notified' = <<>>
    /\ UNCHANGED <<outside, config, participant_states, order, proc, play>>

\* The watchdog task that cleanup() awaits is over: cleanup() returns.
CleanupResume ==
    /\ cleanup_pc \in {"cancel_sent", "cancel_swallowed"}
    /\ WatchdogOver
    /\ cleanup_pc' = "returned"
    /\ pushed' = <<>>
    /\ notified' = <<>>
    /\ UNCHANGED <<downstream, apart, config, participant_states, order, proc, wd,
                   play>>

CleanupNext ==
    \/ \E f \in Frames : ProcessFrame(f[1], f[2])
    \/ ProcResume
    \/ WatchdogTick
    \/ WatchdogResume
    \/ \E n \in Notifiers : PlayStart(n)
    \/ \E n \in Notifiers : PlayFinish(n)
    \/ \E n \in Notifiers : PlayCancelled(n)
    \/ \E n \in Notifiers : OrphanCancelled(n)
    \/ \E n \in Notifiers : OrphanFinish(n)
    \/ Tick
    \/ Cleanup
    \/ WatchdogCancelled
    \/ CleanupResume

CleanupSpec == Init /\ [][CleanupNext]_vars

\* The event loop also runs the cancelled watchdog and the cleanup() call
\* when they are ready.
CleanupLiveSpec ==
    /\ CleanupSpec
    /\ Fairness
    /\ WF_vars(WatchdogCancelled)
    /\ WF_vars(CleanupResume)

\* C12: cleanup terminates and stops the watchdog. In whatever state the
\* watchdog is when cleanup() is called, cleanup() returns, and with the
\* watchdog task over.
C12_CleanupTerminates ==
    (cleanup_pc # "none")
        ~> (cleanup_pc = "returned" /\ wd.pc \notin {"sleep", "notify"})

\* ================================================== errors in the gate
\* The gate with events whose handling raises: a transcription frame whose
\* text is no string, a notifier whose notify() raises (NotifierKinds) and
\* a push_frame() that raises while the link downstream is failing.

\* process_frame(frame) for a TranscriptionFrame of user u whose text is
\* None: the record is looked up or created and stamped,
\* `p.accumulator += frame.text` raises TypeError and the handler pushes
\* the ErrorFrame.
ProcessMalformed(u) ==
    /\ proc.pc = "ready"
    /\ LET p == IF u \in DOMAIN participant_states
                THEN participant_states[u] ELSE NewParticipant
       IN  participant_states' =
               Put(participant_states, u, [p EXCEPT !.last_activity_time = Now])
    /\ order' = IF u \in DOMAIN participant_states THEN order
                ELSE Append(order, u)
    /\ pushed' = <<ErrorFrame>>
    /\ notified' = <<>>
    /\ UNCHANGED <<outside, config, proc, wd, play>>

\* The link to the next processor starts or stops failing.
LinkChanges ==
    /\ downstream' = IF downstream = "ok" THEN "failing" ELSE "ok"
    /\ pushed' = <<>>
    /\ notified' = <<>>
    /\ UNCHANGED <<cleanup_pc, apart, config, participant_states, order, proc,
                   wd, play>>

\* The gate without watchdog.
ErrorInit == Init /\ ~HasWatchdog(wake_timeout)

ErrorNext ==
    \/ \E f \in Frames : ProcessFrame(f[1], f[2])
    \/ \E u \in Users : ProcessMalformed(u)
    \/ LinkChanges
    \/ ProcResume
    \/ \E n \in Notifiers : PlayStart(n)
    \/ \E n \in Notifiers : PlayFinish(n)
    \/ \E n \in Notifiers : PlayCancelled(n)
    \/ Tick

ErrorSpec == ErrorInit /\ [][ErrorNext]_vars

\* The notifier that process_frame of a frame of u with text t calls
\* raises: the frame completes an idle match of an AWAKE participant or a
\* wake match of an IDLE one and the notifier of that match is a failing one.
NotifierRaises(u, t) ==
    LET acc == AccumulatorOf(u) \o t
    IN  \/ /\ StateOf(u) = AWAKE
           /\ FirstMatch(idle_phrases, acc) # NoMatch
           /\ idle_notifier = "failing"
        \/ /\ StateOf(u) = IDLE
           /\ FirstMatch(wake_phrases, acc) # NoMatch
           /\ wake_notifier = "failing"

\* process_frame of a frame of u with text t comes to a push_frame() that
\* raises: the link downstream is failing and the frame is one of an AWAKE
\* participant with no idle match, or one that completes a match whose
\* notifier is not set.
PushRaises(u, t) ==
    LET acc == AccumulatorOf(u) \o t
    IN  /\ downstream = "failing"
        /\ \/ /\ StateOf(u) = AWAKE
              /\ \/ FirstMatch(idle_phrases, acc) = NoMatch
                 \/ idle_notifier = None
           \/ /\ StateOf(u) = IDLE
              /\ FirstMatch(wake_phrases, acc) # NoMatch
              /\ wake_notifier = None

\* The step left the call returned, the records of the participants other
\* than u as they were and the record of u in one of the two states.
Contained(u) ==
    /\ proc' = Ready
    /\ u \in DOMAIN participant_states'
    /\ participant_states'[u].state \in {IDLE, AWAKE}
    /\ \A v \in DOMAIN participant_states :
          v # u => participant_states'[v] = participant_states[v]

MaxText == 5

\* keywords = ["a b", "z"]
keywords == << <<"a", " ", "b">>, <<"z">> >>

\* The texts given to append_text().
Texts ==
    { <<"x", " ">>, <<"a">>, <<" ", "b">>, <<"A", " ", "b">>, <<"z">>,
      <<"b", "y">> }

\* Some keyword phrase matches somewhere in the text s.
KeywordIn(s) == \E i \in 1..Len(keywords) : Search(keywords[i], s) # NoMatch

\* What no step of a strategy changes.
besideStrategy ==
    <<gateVars, cleanup_pc, downstream, resource, notifier, callers, ret,
      matcher>>

\* append_text(text): self._text += text. NeverInterruptionStrategy keeps
\* no text.
AppendText(t) ==
    /\ Len(strategy.text) + Len(t) <= MaxText
    /\ strategy' = [strategy EXCEPT !.text = @ \o t,
                                    !.appended = Append(@, t)]
    /\ answer' = NoAnswer
    /\ UNCHANGED besideStrategy

\* Fault: should_interrupt() uses the text up.
ShouldInterruptConsumes ==
    /\ answer' = [who |-> "keyword",
                  value |-> FirstMatch(keywords, strategy.text) # NoMatch]
    /\ strategy' = [strategy EXCEPT !.text = <<>>]
    /\ UNCHANGED besideStrategy

\* should_interrupt() looks at the first keyword only.
ShouldInterruptFirstOnly ==
    /\ answer' = [who |-> "keyword",
                  value |-> Search(keywords[1], strategy.text) # NoMatch]
    /\ UNCHANGED <<strategy, besideStrategy>>

\* KeywordInterruptionStrategy.should_interrupt(): True with the first
\* pattern that is found in self._text, False when none is.
ShouldInterrupt ==
    /\ answer' = [who |-> "keyword",
                  value |-> FirstMatch(keywords, strategy.text) # NoMatch]
    /\ UNCHANGED <<strategy, besideStrategy>>

\* reset() keeps the text, as the reset() of NeverInterruptionStrategy.
ResetKeepsText ==
    /\ strategy' = [strategy EXCEPT !.appended = <<>>,
                                    !.dropped = KeywordIn(strategy.text)]
    /\ answer' = NoAnswer
    /\ UNCHANGED besideStrategy

\* KeywordInterruptionStrategy.reset(): self._text = "".
Reset ==
    /\ strategy' = [text |-> <<>>, appended |-> <<>>,
                    dropped |-> KeywordIn(strategy.text)]
    /\ answer' = NoAnswer
    /\ UNCHANGED besideStrategy

\* should_interrupt() of the never strategy answers as the keyword one.
NeverShouldInterruptAsKeyword ==
    /\ answer' = [who |-> "never",
                  value |-> FirstMatch(keywords, strategy.text) # NoMatch]
    /\ UNCHANGED <<strategy, besideStrategy>>

\* NeverInterruptionStrategy.should_interrupt(): return False.
NeverShouldInterrupt ==
    /\ answer' = [who |-> "never", value |-> FALSE]
    /\ UNCHANGED <<strategy, besideStrategy>>

StrategyNext ==
    \/ \E t \in Texts : AppendText(t)
    \/ ShouldInterrupt
    \/ Reset
    \/ NeverShouldInterrupt

StrategySpec == NotifierAloneInit /\ [][StrategyNext]_vars

\* The texts of the sequence ts, one after the other.
RECURSIVE Flatten(_)
Flatten(ts) == IF ts = <<>> THEN <<>> ELSE Head(ts) \o Flatten(Tail(ts))

\* ---------------------------------------------------------------- C14
\* C14: after any sequence of append_text and reset calls,
\* should_interrupt() of the keyword strategy returns true if and only if
\* at least one keyword phrase matches somewhere in the text appended since
\* the last reset.
C14_KeywordIffMatch ==
    answer.who = "keyword"
        => (answer.value <=> KeywordIn(Flatten(strategy.appended)))

\* should_interrupt() returned true for the keyword "a b" given over two
\* calls after a reset that dropped a text with a keyword.
C14_Witness ==
    /\ answer = [who |-> "keyword", value |-> TRUE]
    /\ strategy.appended = << <<"a">>, <<" ", "b">> >>
    /\ strategy.dropped

\* ---------------------------------------------------------------- C15
\* C15: reset() empties the accumulated text: the first text appended after
\* a reset is all the text there is, should_interrupt() right after a reset
\* returns false, and a reset of a strategy just reset changes nothing.
C15_ResetForgets ==
    [][/\ Reset => strategy'.text = <<>>
       /\ Reset /\ strategy.appended = <<>>
             => strategy'.text = strategy.text
       /\ \A t \in Texts :
             AppendText(t) /\ strategy.appended = <<>> => strategy'.text = t
       /\ ShouldInterrupt /\ strategy.appended = <<>>
             => answer'.value = FALSE]_vars

\* A keyword seen before the reset no longer fires: the reset dropped a text
\* with a keyword in it, "x " was appended and should_interrupt() returned
\* false.
C15_Witness ==
    /\ strategy.dropped
    /\ strategy.appended = << <<"x", " ">> >>
    /\ answer = [who |-> "keyword", value |-> FALSE]

\* ---------------------------------------------------------------- C16
\* C16: should_interrupt() of the never strategy returns false after every
\* sequence of append_text, should_interrupt and reset calls, whatever the
\* text.
C16_NeverInterrupts ==
    answer.who = "never" => answer.value = FALSE

\* The never strategy answered after a text with a keyword in it.
C16_Witness ==
    /\ answer.who = "never"
    /\ KeywordIn(Flatten(strategy.appended))

\* The playback most recently created, 0 when none was.
Latest == Len(notifier.tasks)

\* The last step returned from the call op of caller c.
Returned(c, op) == ret' = [caller |-> c, op |-> op, result |-> "returned"]

\* ---------------------------------------------------------------- C17
\* C17: wait() returns at once when no playback was ever created, and
\* otherwise returns only when the playback that was the most recently
\* created one at the time of the call is done (finished or cancelled): a
\* call that does not return at once awaits that playback and returns in a
\* state where it is done.
C17_WaitForLatest ==
    [][\A c \in Callers :
          /\ WaitCall(c) /\ Latest = 0 => Returned(c, "wait")
          /\ WaitCall(c) /\ Latest # 0
                => IF TaskDone(notifier, Latest)
                   THEN Returned(c, "wait")
                   ELSE /\ ret' = NoReturn
                        /\ callers'[c] = [pc |-> "wait", awaits |-> Latest]
          /\ callers[c].pc = "wait"
                => \/ callers'[c] = callers[c] /\ ret'.caller # c
                   \/ /\ TaskDone(notifier, callers[c].awaits)
                      /\ Returned(c, "wait")
                      /\ callers'[c] = IdleCaller]_vars

\* After two notify() calls, wait() has returned with the first playback
\* cancelled and the second finished.
C17_Witness ==
    /\ ret.op = "wait"
    /\ ret.result = "returned"
    /\ Latest = 2
    /\ notifier.tasks[1].status = "cancelled"
    /\ notifier.tasks[2].status = "finished"

\* ---------------------------------------------------------------- C18
\* C18: notify() is fire-and-forget. It returns in a state where the
\* playback it created is still pending, and a caller suspended in notify()
\* gets out of it even when no worker thread ever ends.
C18_FireAndForget ==
    /\ [][\A c \in Callers :
             Returned(c, "notify")
                => /\ Len(notifier'.tasks) = Latest + 1
                   /\ notifier'.play_task = Latest + 1
                   /\ notifier'.tasks[Latest + 1].status = "pending"
                   /\ callers'[c].pc = "idle"]_vars
    /\ \A c \in Callers :
          (callers[c].pc = "notify") ~> (callers[c].pc = "idle")

\* notify() has returned with its playback pending while the worker thread
\* of the playback it cancelled is still playing.
C18_Witness ==
    /\ ret.op = "notify"
    /\ ret.result = "returned"
    /\ Latest = 2
    /\ notifier.tasks[1].status = "cancelled"
    /\ notifier.tasks[1].worker = "playing"
    /\ notifier.tasks[2].status = "pending"

\* ---------------------------------------------------------------- C19
\* C19: an error raised by the worker thread of a playback is never raised
\* to a caller of notify() or of wait(), and a notify() after the playback
\* is over still creates a fresh playback.
C19_PlaybackFailuresContained ==
    [][/\ ret'.result # "raised"
       /\ \A i \in Playbacks : notifier'.tasks[i].status # "failed"
       /\ \A c \in Callers :
             (/\ NotifyCall(c)
              /\ Latest # 0
              /\ notifier.tasks[Latest].worker = "failed"
              /\ TaskDone(notifier, Latest))
                => /\ Returned(c, "notify")
                   /\ notifier'.tasks[Latest + 1] = NewTask]_vars

\* The worker of the first playback failed, wait() returned and a later
\* notify() has created a second playback.
C19_Witness ==
    /\ ret.op = "notify"
    /\ ret.result = "returned"
    /\ Latest = 2
    /\ notifier.tasks[1].worker = "failed"
    /\ notifier.tasks[1].status = "finished"
    /\ notifier.tasks[2] = NewTask

\* ---------------------------------------------------------------- C20
\* C20 as stated: construction succeeds only for a mono or stereo PCM
\* waveform resource.
C20_OnlyMonoOrStereo ==
    notifier.built = "ok" => resource.channels \in {1, 2}

\* C20, amended: construction fails with an error, leaving no usable
\* notifier and no playback, whenever the resource is missing or is not a
\* valid PCM waveform container, and succeeds for every valid PCM waveform
\* resource with at least one channel, whatever the number of channels.
C20_ConstructionValidates ==
    notifier.built # "no"
        => /\ notifier.built = "ok"
                 <=> /\ resource.exists
                     /\ resource.container = "wave"
                     /\ resource.format = "pcm"
                     /\ resource.channels >= 1
           /\ ~resource.exists => notifier.built = "FileNotFoundError"
           /\ notifier.built # "ok"
                 => /\ notifier.tasks = <<>>
                    /\ notifier.play_task = 0
                    /\ \A c \in Callers : callers[c] = IdleCaller
                    /\ ret = NoReturn

\* Construction with a WAV file whose samples are not PCM has failed.
C20_Witness ==
    /\ notifier.built = "ValueError"
    /\ resource.exists
    /\ resource.container = "wave"
    /\ resource.format = "float"

\* ================================================= the gate, continued
\* The step is process_frame for a frame of u whose text completes a match
\* of one of the patterns in the accumulator of u.
ProcessesMatch(u, patterns) ==
    \E f \in Frames :
        /\ f[1] = u
        /\ Processes(f)
        /\ FirstMatch(patterns, AccumulatorOf(u) \o f[2]) # NoMatch

\* ---------------------------------------------------------------- C21
\* C21: a participant changes state only from IDLE to AWAKE, in
\* process_frame of a frame of its own that completes a wake match, and
\* from AWAKE to IDLE, in process_frame of a frame of its own that completes
\* an idle match or in a step of the watchdog after wake_timeout of
\* inactivity; without watchdog only process_frame of an own frame changes
\* the state.
C21_TransitionsOnly ==
    [][\A u \in DOMAIN participant_states' :
          participant_states'[u].state # StateOf(u)
             => \/ /\ StateOf(u) = IDLE
                   /\ ProcessesMatch(u, wake_phrases)
                \/ /\ StateOf(u) = AWAKE
                   /\ ProcessesMatch(u, idle_phrases)
                \/ /\ StateOf(u) = AWAKE
                   /\ WatchdogStep
                   /\ HasWatchdog(wake_timeout)
                   /\ Now - participant_states[u].last_activity_time
                         >= wake_timeout]_vars

\* Without watchdog u2 woke by its wake phrase and u1, who spoke the wake
\* phrase and then the idle phrase, is IDLE again.
C21_Witness ==
    /\ ~HasWatchdog(wake_timeout)
    /\ DOMAIN participant_states = Users
    /\ participant_states["u2"].state = AWAKE
    /\ participant_states["u1"].state = IDLE
    /\ participant_states["u1"].accumulator = <<>>
    /\ pushed = <<Frame("u1", <<"x", " ", "z">>)>>

\* ---------------------------------------------------------------- C22
\* C22: the accumulator of a participant holds the texts of its frames since
\* its last transition, in arrival order. Step by step: a step that
\* changes the state of u leaves the accumulator of u empty (or leaves the
\* process_frame call that will empty it suspended in the wake notifier),
\* process_frame of a frame of u that changes no state appends the text of
\* the frame, the resumption of a wake match empties it, and no other step
\* touches it.
C22_AccumulatorContent ==
    [][\A u \in DOMAIN participant_states' :
          LET acc == participant_states'[u].accumulator
          IN  IF participant_states'[u].state # StateOf(u)
              THEN \/ acc = <<>>
                   \/ proc'.pc = "wake_notify" /\ proc'.user = u
              ELSE IF \E f \in Frames : f[1] = u /\ Processes(f)
              THEN \E f \in Frames :
                      /\ f[1] = u
                      /\ Processes(f)
                      /\ acc = AccumulatorOf(u) \o f[2]
              ELSE IF ProcResume /\ proc.pc = "wake_notify" /\ proc.user = u
              THEN acc = <<>>
              ELSE acc = AccumulatorOf(u)]_vars

\* ---------------------------------------------------------------- C23
\* C23: should_interrupt() is a pure query for both strategies: the step in
\* which a call returns leaves the accumulated text as it was, and a call
\* that follows a call of the same strategy with no append_text or reset in
\* between returns the same result.
C23_PureQuery ==
    [][answer'.who # None
          => /\ strategy' = strategy
             /\ answer.who = answer'.who => answer'.value = answer.value]_vars

\* should_interrupt() of the keyword strategy has returned false on the
\* text "a bby", which is still there.
C23_Witness ==
    /\ answer = [who |-> "keyword", value |-> FALSE]
    /\ strategy.text = <<"a", " ", "b", "b", "y">>

\* The number of calls of the notifier n among the notify() calls cs.
Count(cs, n) == Cardinality({i \in 1..Len(cs) : cs[i] = n})

\* The participants that the step takes from the state a to the state b.
Moved(a, b) ==
    {u \in DOMAIN participant_states' :
        StateOf(u) = a /\ participant_states'[u].state = b}

\* ---------------------------------------------------------------- C24
\* C24: in every step the gate calls notify() of the wake notifier, when one
\* is set, once for each participant the step takes from IDLE to AWAKE, and
\* notify() of the idle notifier, when one is set, once for each participant
\* the step takes from AWAKE to IDLE, by idle phrase or by timeout; a step
\* without transition calls no notifier.
C24_NotificationCount ==
    [][/\ Count(notified', "wake") =
             IF wake_notifier = None THEN 0
             ELSE Cardinality(Moved(IDLE, AWAKE))
       /\ Count(notified', "idle") =
             IF idle_notifier = None THEN 0
             ELSE Cardinality(Moved(AWAKE, IDLE))]_vars

\* One scan of the watchdog has timed out both participants and has called
\* the idle notifier twice; it is suspended in the second call.
C24_Witness ==
    /\ notified = <<"idle", "idle">>
    /\ wd.pc = "notify"
    /\ DOMAIN participant_states = Users
    /\ \A u \in Users : participant_states[u].state = IDLE

\* ---------------------------------------------------------------- C25
\* C25: the record of a participant is a critical section. While
\* process_frame is suspended in the wake notifier for a frame of u, after
\* it has set u AWAKE and before it clears the accumulator, no step of the
\* watchdog changes the record of u, and the call ends with u AWAKE.
C25_CriticalSection ==
    [][proc.pc = "wake_notify"
          => /\ WatchdogStep
                   => participant_states'[proc.user] =
                         participant_states[proc.user]
             /\ ProcResume
                   => participant_states'[proc.user].state = AWAKE]_vars

\* ---------------------------------------------------------------- C26
\* C26: a failure of one notify() call does not stop the timeout: the
\* watchdog task of a gate with a timeout is never over, whatever the idle
\* notifier does.
C26_WatchdogSurvives ==
    HasWatchdog(wake_timeout) => wd.pc \in {"sleep", "notify"}

\* ------------------------------------------------- C27: first pattern wins
\* The patterns of the list that match s, by their position in the list.
Matching(patterns, s) ==
    {i \in 1..Len(patterns) : Search(patterns[i], s) # NoMatch}

\* The lowest position of the list whose pattern matches s.
Earliest(patterns, s) ==
    CHOOSE i \in Matching(patterns, s) : \A j \in Matching(patterns, s) : i <= j

\* C27: when a frame of a participant is processed and more than one wake
\* (idle) pattern matches the accumulated text, the participant makes the
\* one transition, at most one frame is forwarded, and the forwarded text is
\* cut at the match of the matching pattern that comes first in the list:
\* from its start without a wake notifier, after its end with one.
C27_FirstPatternWins ==
    [][\A f \in Frames :
          Processes(f)
             => LET u   == f[1]
                    acc == AccumulatorOf(u) \o f[2]
                IN  /\ StateOf(u) = IDLE
                       /\ Cardinality(Matching(wake_phrases, acc)) > 1
                       => LET m == Search(wake_phrases[Earliest(wake_phrases, acc)],
                                         acc)
                          IN  /\ Moved(IDLE, AWAKE) = {u}
                              /\ Moved(AWAKE, IDLE) = {}
                              /\ Len(Forwarded') <= 1
                              /\ wake_notifier = None
                                 => Forwarded' = <<Frame(u, From(acc, m.start))>>
                              /\ proc'.pc = "wake_notify"
                                 => proc'.match_end = m.end
                    /\ StateOf(u) = AWAKE
                       /\ Cardinality(Matching(idle_phrases, acc)) > 1
                       => /\ Moved(AWAKE, IDLE) = {u}
                          /\ Moved(IDLE, AWAKE) = {}
                          /\ Len(Forwarded') <= 1]_vars

\* A frame of u2 was processed whose text "x a b" matches both wake
\* patterns, the second of the list further left than the first.
C27_Witness ==
    /\ wake_notifier = None
    /\ wake_timeout = NoTimeout
    /\ "u2" \in DOMAIN participant_states
    /\ StateOf("u2") = AWAKE
    /\ pushed = <<Frame("u2", <<"a", " ", "b">>)>>
    /\ Search(wake_phrases[2], <<"x", " ", "a", " ", "b">>).start
          < Search(wake_phrases[1], <<"x", " ", "a", " ", "b">>).start

\* --------------------------------------- C28: phrases split across frames
\* One participant who speaks the wake phrase "a b" and the idle phrase
\* "b a" one word per frame; no frame holds a whole phrase.
SplitFrames ==
    { <<"u1", <<"a", " ">> >>,
      <<"u1", <<"b", " ">> >> }

SplitNext ==
    \/ \E f \in SplitFrames : ProcessFrame(f[1], f[2])
    \/ ProcResume
    \/ WatchdogTick
    \/ WatchdogResume
    \/ \E n \in Notifiers : PlayStart(n)
    \/ \E n \in Notifiers : PlayFinish(n)
    \/ \E n \in Notifiers : PlayCancelled(n)
    \/ \E n \in Notifiers : OrphanCancelled(n)
    \/ \E n \in Notifiers : OrphanFinish(n)
    \/ Tick

SplitSpec == Init /\ [][SplitNext]_vars

\* The frame f completes a phrase of the list: the text accumulated before
\* it does not match, the text of the frame does not match, both together
\* match.
Completes(f, patterns) ==
    /\ Matching(patterns, AccumulatorOf(f[1])) = {}
    /\ Matching(patterns, f[2]) = {}
    /\ Matching(patterns, AccumulatorOf(f[1]) \o f[2]) # {}

\* C28: when a frame of an IDLE (AWAKE) participant completes a wake (idle)
\* phrase whose words came in several frames, none of which holds the whole
\* phrase, the participant becomes AWAKE (IDLE) in the step that processes
\* that frame.
C28_SplitPhraseDetected ==
    [][\A f \in SplitFrames :
          Touches(f[1]) /\ ProcessFrame(f[1], f[2])
             => /\ StateOf(f[1]) = IDLE /\ Completes(f, wake_phrases)
                   => participant_states'[f[1]].state = AWAKE
                /\ StateOf(f[1]) = AWAKE /\ Completes(f, idle_phrases)
                   => participant_states'[f[1]].state = IDLE]_vars

\* u1 woke with "a " then "b ", then spoke "b " and "a ": the frame "a "
\* completed the idle phrase, u1 is IDLE and the frame was forwarded.
C28_Witness ==
    /\ idle_notifier = None
    /\ "u1" \in DOMAIN participant_states
    /\ StateOf("u1") = IDLE
    /\ AccumulatorOf("u1") = <<>>
    /\ pushed = <<Frame("u1", <<"a", " ">>)>>

\* ------------------------------------------- C29: the phrase matching rule
\* The characters of the phrases and texts tried: letters in both cases,
\* whitespace and a punctuation mark.
MatchChars == {"a", "A", "b", " ", "!"}

MaxPhrase == 3
MaxSubject == 4

\* The strings of at most n characters.
Strings(n) == UNION {[1..k -> MatchChars] : k \in 0..n}

\* The phrases compiled: those with at least one word.
Phrases == {p \in Strings(MaxPhrase) : Split(p) # <<>>}

\* re.compile(r"\b" + r"\s*".join(re.escape(word) for word in
\* name.split()) + r"\b", re.IGNORECASE)
Compile(phrase) ==
    /\ matcher.pc = "none"
    /\ matcher' = [pc |-> "compiled", phrase |-> phrase, text |-> <<>>,
                   found |-> NoMatch]
    /\ UNCHANGED <<gateVars, cleanup_pc, downstream, resource, notifier,
                   callers, ret, strategy, answer>>

\* match = pattern.search(text)
PatternSearch(text) ==
    /\ matcher.pc = "compiled"
    /\ matcher' = [matcher EXCEPT !.pc = "searched", !.text = text,
                                  !.found = Search(matcher.phrase, text)]
    /\ UNCHANGED <<gateVars, cleanup_pc, downstream, resource, notifier,
                   callers, ret, strategy, answer>>

MatchNext ==
    \/ \E p \in Phrases : Compile(p)
    \/ \E t \in Strings(MaxSubject) : PatternSearch(t)

MatchSpec == NotifierAloneInit /\ [][MatchNext]_vars

\* The words occur in s from offset i to offset j: in order, compared
\* after case folding, with nothing but whitespace (of any length, none
\* included) between one word and the next.
Occurs(words, s, i, j) ==
    \E q \in [1..Len(words) -> 0..Len(s)] :
        /\ q[1] = i
        /\ q[Len(words)] + Len(words[Len(words)]) = j
        /\ \A k \in 1..Len(words) :
              /\ q[k] + Len(words[k]) <= Len(s)
              /\ \A c \in 1..Len(words[k]) :
                    Lower(s[q[k] + c]) = Lower(words[k][c])
        /\ \A k \in 1..(Len(words) - 1) :
              /\ q[k] + Len(words[k]) <= q[k + 1]
              /\ \A c \in (q[k] + Len(words[k]) + 1)..q[k + 1] : IsSpace(s[c])

\* The places of s where the words of the phrase occur.
Occurrences(phrase, s) ==
    {o \in (0..Len(s)) \X (0..Len(s)) : Occurs(Split(phrase), s, o[1], o[2])}

\* The occurrence o of a phrase in s has a letter directly before its first
\* word or directly after its last word.
Embedded(s, o) ==
    \/ o[1] >= 1 /\ IsWordChar(s[o[1]])
    \/ o[2] < Len(s) /\ IsWordChar(s[o[2] + 1])

\* C29: a phrase matches a text exactly when its words occur in the text in
\* order, compared without regard to case and separated only by whitespace,
\* with a word boundary before the first word and after the last word; a
\* phrase that occurs only with letters directly before its first word or
\* directly after its last word does not match.
C29_MatchingRule ==
    matcher.pc = "searched"
       => LET occ == Occurrences(matcher.phrase, matcher.text)
          IN  /\ matcher.found # NoMatch
                    <=> \E o \in occ : /\ Boundary(matcher.text, o[1])
                                       /\ Boundary(matcher.text, o[2])
              /\ (occ # {} /\ \A o \in occ : Embedded(matcher.text, o))
                    => matcher.found = NoMatch

\* ------------------------------------------- C30: participant independence
\* The participants a suspended scan has still to look at.
ToScan == {wd'.todo[i] : i \in 1..Len(wd'.todo)}

\* The scan that the step starts or resumes deals with the timeout of v:
\* v is IDLE after the step, or the scan is suspended in notify() with v
\* still to come.
TimeoutTaken(v) ==
    \/ participant_states'[v].state = IDLE
    \/ wd'.pc = "notify" /\ v \in ToScan

\* C30: a process_frame step for one participant, up to its suspension and
\* from its resumption on, leaves the record of every other participant as
\* it is, and a watchdog scan deals with every participant whose own timeout
\* has passed, whatever it does for the participants it looks at before:
\* what is forwarded for a participant follows from its own frames and its
\* own timeouts.
C30_ParticipantIndependence ==
    [][/\ \A f \in Frames :
             Processes(f)
                => \A v \in DOMAIN participant_states \ {f[1]} :
                      participant_states'[v] = participant_states[v]
       /\ ProcResume
             => \A v \in DOMAIN participant_states \ {proc.user} :
                   participant_states'[v] = participant_states[v]
       /\ WatchdogTick
             => \A v \in DOMAIN participant_states :
                   TimedOut(participant_states[v], Now) => TimeoutTaken(v)
       /\ WatchdogResume
             => \A i \in 1..Len(wd.todo) :
                   TimedOut(participant_states[wd.todo[i]], wd.current_time)
                      => TimeoutTaken(wd.todo[i])]_vars

\* ---------------------------------------------------------------- C31
\* The step takes up an event: process_frame starts for a transcription
\* frame, well-formed or not, of some participant.
TakesEvent == \E u \in Users : Touches(u) \/ ProcessMalformed(u)

RecordFrames ==
    { <<"u1", <<"a", " ", "b">> >>,
      <<"u1", <<"x", " ", "z">> >>,
      <<"u2", <<"x", " ", "a", " ", "b">> >> }

RecordsNext ==
    \/ \E f \in RecordFrames : ProcessFrame(f[1], f[2])
    \/ ProcResume
    \/ WatchdogTick
    \/ WatchdogResume
    \/ \E n \in Notifiers : PlayStart(n)
    \/ \E n \in Notifiers : PlayFinish(n)
    \/ \E n \in Notifiers : PlayCancelled(n)
    \/ \E n \in Notifiers : OrphanCancelled(n)
    \/ \E n \in Notifiers : OrphanFinish(n)
    \/ Tick
    \/ Cleanup
    \/ WatchdogCancelled
    \/ CleanupResume

RecordsSpec == Init /\ [][RecordsNext]_vars

\* The record of u after the step is what process_frame makes of a record
\* with the accumulator acc and the frame text t: the text is appended, or
\* the accumulator is cleared by a transition.
Continues(u, acc, t) ==
    /\ participant_states'[u].last_activity_time = Now
    /\ participant_states'[u].accumulator \in {acc \o t, <<>>}
    /\ participant_states'[u].state = StateOf(u)
          => participant_states'[u].accumulator = acc \o t

\* C32: the records only grow in number; a record appears in the step that
\* processes the first transcription frame of its participant, made from a
\* record that is IDLE with an empty accumulator; the record of a known
\* participant is never made anew by a later frame of it, and no timeout
\* and no cleanup() removes a record.
C32_ParticipantRecords ==
    [][/\ DOMAIN participant_states \subseteq DOMAIN participant_states'
       /\ \A f \in RecordFrames :
             f[1] \notin DOMAIN participant_states' => ~ProcessFrame(f[1], f[2])
       /\ \A u \in DOMAIN participant_states' \ DOMAIN participant_states :
             /\ proc.pc = "ready"
             /\ \E f \in RecordFrames :
                   /\ f[1] = u
                   /\ Continues(u, <<>>, f[2])
                   /\ participant_states'[u].state = AWAKE
                         <=> FirstMatch(wake_phrases, f[2]) # NoMatch
       /\ \A u \in DOMAIN participant_states :
             Touches(u)
                => \E f \in RecordFrames :
                      f[1] = u /\ Continues(u, AccumulatorOf(u), f[2])]_vars

\* Both participants are known, u2 woke and was timed out, u1 has spoken
\* after it woke, and cleanup() has returned.
C32_Witness ==
    /\ cleanup_pc = "returned"
    /\ DOMAIN participant_states = Users
    /\ StateOf("u2") = IDLE
    /\ participant_states["u2"].last_activity_time < Now
    /\ StateOf("u1") = AWAKE
    /\ AccumulatorOf("u1") = <<"a", " ", "b">>

\* ---------------------------------------------------------------- C33
\* C33: a watchdog task exists exactly when a wake timeout is configured,
\* whatever its duration, zero included; without a configured timeout there
\* is no watchdog task and cleanup() never waits for one.
C33_WatchdogExistence ==
    /\ wd.pc # "none" <=> wake_timeout # NoTimeout
    /\ wake_timeout = NoTimeout => cleanup_pc \in {"none", "returned"}

\* -------------------------------------- C34: frames of other types
\* Frames that are no TranscriptionFrame: a TextFrame on its way downstream
\* that carries the wake phrase and an InterimTranscriptionFrame of u1 on
\* its way upstream that carries the idle phrase.
OtherFrames ==
    { [type |-> "text", direction |-> "downstream",
       user_id |-> None, text |-> <<"a", " ", "b">>],
      [type |-> "interim", direction |-> "upstream",
       user_id |-> "u1", text |-> <<"x", " ", "z">>] }

\* Fault: the frame is pushed with the default direction.
ProcessOtherDownstream(fr) ==
    /\ proc.pc = "ready"
    /\ pushed' = Push(<<[fr EXCEPT !.direction = "downstream"]>>)
    /\ notified' = <<>>
    /\ UNCHANGED <<outside, config, participant_states, order, proc, wd, play>>

\* process_frame(frame, direction) for a frame that is no TranscriptionFrame:
\* push_frame(frame, direction). A push downstream raises while the link
\* downstream is failing, and the handler pushes the ErrorFrame.
ProcessOther(fr) ==
    /\ proc.pc = "ready"
    /\ pushed' = IF fr.direction = "downstream" THEN Push(<<fr>>) ELSE <<fr>>
    /\ notified' = <<>>
    /\ UNCHANGED <<outside, config, participant_states, order, proc, wd, play>>

\* The gate with its watchdog, two participants who speak whole phrases,
\* frames of other types and a link downstream that can fail.
PassNext ==
    \/ \E f \in RecordFrames : ProcessFrame(f[1], f[2])
    \/ \E fr \in OtherFrames : ProcessOther(fr)
    \/ LinkChanges
    \/ ProcResume
    \/ WatchdogTick
    \/ WatchdogResume
    \/ \E n \in Notifiers : PlayStart(n)
    \/ \E n \in Notifiers : PlayFinish(n)
    \/ \E n \in Notifiers : PlayCancelled(n)
    \/ \E n \in Notifiers : OrphanCancelled(n)
    \/ \E n \in Notifiers : OrphanFinish(n)
    \/ Tick

PassSpec == Init /\ [][PassNext]_vars

\* C34: process_frame for a frame that is no transcription frame pushes
\* that frame, unchanged and in the direction it came with, whatever the
\* states of the participants are (when the push downstream raises, the
\* error signal is what comes out); it changes no record of a participant
\* and calls no notifier.
C34_PassThrough ==
    [][\A fr \in OtherFrames :
          ProcessOther(fr)
             => /\ downstream = "ok" \/ fr.direction = "upstream"
                   => pushed' = <<fr>>
                /\ pushed' \in {<<fr>>, <<ErrorFrame>>}
                /\ participant_states' = participant_states
                /\ notified' = <<>>
                /\ play' = play]_vars

\* u1 is AWAKE and u2 is IDLE, and the InterimTranscriptionFrame of u1 with
\* the idle phrase has just gone upstream.
C34_Witness ==
    /\ DOMAIN participant_states = Users
    /\ StateOf("u1") = AWAKE
    /\ StateOf("u2") = IDLE
    /\ pushed = <<[type |-> "interim", direction |-> "upstream",
                   user_id |-> "u1", text |-> <<"x", " ", "z">>]>>

\* ------------------------------------- C35: one transition per event
\* u1 speaks an idle phrase and a wake phrase in one frame; u2 speaks the
\* wake phrase.
BothFrames ==
    { <<"u1", <<"z", " ", "a", " ", "b">> >>,
      <<"u2", <<"x", " ", "a", " ", "b">> >> }

BothNext ==
    \/ \E f \in BothFrames : ProcessFrame(f[1], f[2])
    \/ ProcResume
    \/ WatchdogTick
    \/ WatchdogResume
    \/ \E n \in Notifiers : PlayStart(n)
    \/ \E n \in Notifiers : PlayFinish(n)
    \/ \E n \in Notifiers : PlayCancelled(n)
    \/ \E n \in Notifiers : OrphanCancelled(n)
    \/ \E n \in Notifiers : OrphanFinish(n)
    \/ Tick

BothSpec == Init /\ [][BothNext]_vars

\* The text s holds a wake phrase and an idle phrase.
HoldsBoth(s) ==
    /\ Matching(wake_phrases, s) # {}
    /\ Matching(idle_phrases, s) # {}

\* C35: a process_frame call changes the state of its participant at most
\* once. When the accumulated text holds both a wake phrase and an idle
\* phrase, an IDLE participant is AWAKE after the step (the idle phrase is
\* not acted on) and an AWAKE participant is IDLE after it (it is not woken
\* again); and the rest of a call that was suspended in notify() changes no
\* state.
C35_OneTransitionPerEvent ==
    [][/\ \A f \in BothFrames :
             Touches(f[1]) /\ ProcessFrame(f[1], f[2])
             /\ HoldsBoth(AccumulatorOf(f[1]) \o f[2])
                => /\ StateOf(f[1]) = IDLE
                      => participant_states'[f[1]].state = AWAKE
                   /\ StateOf(f[1]) = AWAKE
                      => participant_states'[f[1]].state = IDLE
       /\ ProcResume
             => \A u \in DOMAIN participant_states :
                   participant_states'[u].state = participant_states[u].state]_vars

\* u1 said "z a b" while IDLE and again while AWAKE: it is IDLE, and the
\* second frame went out as it came.
C35_Witness ==
    /\ idle_notifier = None
    /\ "u1" \in DOMAIN participant_states
    /\ StateOf("u1") = IDLE
    /\ AccumulatorOf("u1") = <<>>
    /\ pushed = <<Frame("u1", <<"z", " ", "a", " ", "b">>)>>

\* ---------------------------------------------------------------- C36
\* C36: should_interrupt() of the keyword strategy answers true exactly on
\* a text that holds a keyword, and an append_text() call never takes the
\* text from one on which it answers true to one on which it answers false:
\* once it has returned true it returns true until reset().
C36_MonotoneUntilReset ==
    [][/\ answer'.who = "keyword"
             => (answer'.value <=> KeywordIn(strategy'.text))
       /\ (\E t \in Texts : AppendText(t)) /\ KeywordIn(strategy.text)
             => KeywordIn(strategy'.text)]_vars

\* ---------------------------------------------------------------- C37
\* A scan that reaches u is due within one tick interval: the watchdog is
\* in asyncio.sleep(1) and wakes up no later than SleepInterval from now,
\* or its scan is suspended in notify() with u still to come.
ScanPending(u) ==
    \/ wd.pc = "sleep" /\ wd.sleep_until <= Now + SleepInterval
    \/ wd.pc = "notify" /\ \E i \in 1..Len(wd.todo) : wd.todo[i] = u

\* C37: with a timeout that starts the watchdog, a participant that is AWAKE
\* and whose silence has reached the timeout always has a scan pending that
\* reaches it within one tick interval, whatever the watchdog did for the
\* other participants: it is IDLE no later than timeout + 1 after its last
\* frame.
C37_BoundedTimeoutResponse ==
    HasWatchdog(wake_timeout)
    => \A u \in DOMAIN participant_states :
          TimedOut(participant_states[u], Now) => ScanPending(u)

\* The same with an idle notifier whose notify() does not raise.
BoundedTimeoutSoundNotifier ==
    idle_notifier # "failing" => C37_BoundedTimeoutResponse

\* ---------------------------------------------------------------- C38
\* The step is a process_frame call that ends in the handler: it starts
\* with the gate ready and leaves exactly the ErrorFrame pushed.
FailsWithError == proc.pc = "ready" /\ pushed' = <<ErrorFrame>>

\* C38: a process_frame call that ends with the error signal leaves every
\* participant in the state (IDLE or AWAKE) it had before the call; a
\* participant the call created is IDLE.
C38_StateUnchangedOnError ==
    [][FailsWithError
          => \A u \in DOMAIN participant_states' :
                participant_states'[u].state = StateOf(u)]_vars

\* The same for the calls that fail on a text that is no string.
StateUnchangedOnBadText ==
    [][\A u \in Users :
          ProcessMalformed(u) => participant_states'[u].state = StateOf(u)]_vars

====
